---- MODULE Spec2Model ----
(***************************************************************************)
(* QueueStore (workbox-background-sync/src/lib/QueueStore.ts): the queue   *)
(* of stored requests of one queue name, kept in the object store of       *)
(* QueueDb that all queue names share.                                     *)
(*                                                                         *)
(* Spec     : the calls are issued one at a time, each completed before    *)
(*            the next begins (one action per method).                     *)
(* SpecConc : calls interleave at their awaits (one action per QueueDb     *)
(*            call of a method).                                           *)
(***************************************************************************)
EXTENDS Integers, Sequences, FiniteSets, TLC

\* ------------------------------------------------------------------ bounds
MaxInserts == 3
MaxCalls == 2

\* Put-backs made after the inserts (a put-back inserts the entry again).
MaxRoundTrips == 1

\* ------------------------------------------------------------ value space
QueueNames == {"A", "B"}

\* `undefined` for the optional fields id and queueName of an entry.
NoId == -99
NoName == "undefined"

\* The entries a caller hands to pushEntry / unshiftEntry (the timestamp is
\* added at the call): without id and queueName, or carrying both, as an
\* entry does that a getAll / popEntry / shiftEntry returned before.
CallerEntries ==
  { [id |-> NoId, queueName |-> NoName, requestData |-> "a"],
    [id |-> 1, queueName |-> "A", requestData |-> "b"] }

\* The entry handed over by the callers of the interleaved calls.
ConcEntries == { e \in CallerEntries : e.id # NoId }

\* The ids deleteEntry is called with: those of the stored records, and one
\* that no record has (the key generator's next value).
CallerIds(store, autoInc) == { e.id : e \in store } \cup { autoInc }

Slots == 1 .. MaxCalls

VARIABLES
  entries,      \* QueueDb: the records of the object store
  nextId,       \* QueueDb: the next value of the store's key generator
  clock,        \* number of inserts so far (timestamps)
  last,         \* the last completed call: method, receiver, result, state before
  deque,        \* per queue name, the abstract double-ended queue
  pushRun,      \* per queue name, [base, run]: the current run of pushEntry calls
  unshiftRun,   \* per queue name, [base, run]: the current run of unshiftEntry calls
  returned,     \* [timestamp, times]: how often popEntry / shiftEntry returned the entry
  deleted,      \* [id, timestamp] of the records that were stored and then deleted
  insertedBy,   \* [timestamp, q]: the entry was stored through the store bound to q
  calls,        \* SpecConc: the calls in flight, per slot
  drain         \* SpecDrain: the entries pushed to DrainQueue and the shiftEntry results

vars == << entries, nextId, clock, last, deque, pushRun, unshiftRun, returned,
           deleted, insertedBy, calls, drain >>

\* ------------------------------------------------------------- sequences
RECURSIVE SortById(_)
SortById(S) ==
  IF S = {} THEN << >>
  ELSE LET m == CHOOSE e \in S : \A f \in S : e.id <= f.id
       IN << m >> \o SortById(S \ {m})

RECURSIVE Reverse(_)
Reverse(s) == IF s = << >> THEN << >> ELSE Reverse(Tail(s)) \o << Head(s) >>

Range(s) == { s[i] : i \in 1 .. Len(s) }

\* ------------------------------------------------------- QueueDb (Entry Store)
\* An optional result (an entry or undefined) is a set of at most one entry.

\* addEntry: the record is stored under entry.id, or under the next value of
\* the key generator when entry.id is unset; it fails when the id is taken.
addEntry(store, autoInc, entry) ==
  LET key == IF entry.id = NoId THEN autoInc ELSE entry.id
  IN IF \E e \in store : e.id = key
     THEN [ok |-> FALSE, entries |-> store, nextId |-> autoInc]
     ELSE [ok |-> TRUE,
           entries |-> store \cup { [entry EXCEPT !.id = key] },
           nextId |-> IF key >= autoInc THEN key + 1 ELSE autoInc]

\* getFirstEntry: the record with the lowest id of the whole store.
getFirstEntry(store) ==
  { e \in store : \A f \in store : e.id <= f.id }

\* getEndEntryFromIndex: the first record of the queue names in `range` in
\* direction "next" (ascending id) or "prev" (descending id).
getEndEntryFromIndex(store, direction, range) ==
  LET own == { e \in store : e.queueName \in range }
  IN IF direction = "next"
     THEN { e \in own : \A f \in own : e.id <= f.id }
     ELSE { e \in own : \A f \in own : e.id >= f.id }

\* getAllEntriesFromIndex: the records of the queue names in `range`, by id.
getAllEntriesFromIndex(store, range) ==
  SortById({ e \in store : e.queueName \in range })

\* QueueDb.deleteEntry: silent when no record has the id.
dbDeleteEntry(store, id) == { e \in store : e.id # id }

\* ------------------------------------------------------------ QueueStore
The(S) == CHOOSE e \in S : TRUE

\* Changed: the caller's id is kept.
pushEntryArgKeepId(q, entry) == [entry EXCEPT !.queueName = q]

\* Changed: the caller's queueName is kept.
pushEntryArgNoStamp(q, entry) == [entry EXCEPT !.id = NoId]

\* pushEntry: `delete entry.id; entry.queueName = this._queueName`.
pushEntryArg(q, entry) == [entry EXCEPT !.id = NoId, !.queueName = q]

\* Changed: the id is always left to the key generator.
unshiftEntryArgAuto(q, entry, firstEntry) ==
  [entry EXCEPT !.id = NoId, !.queueName = q]

\* Changed: no `entry.queueName = this._queueName`.
unshiftEntryArgNoStamp(q, entry, firstEntry) ==
  IF firstEntry # {}
  THEN [entry EXCEPT !.id = The(firstEntry).id - 1]
  ELSE [entry EXCEPT !.id = NoId]

\* Changed: one more than the lowest id.
unshiftEntryArgPlus(q, entry, firstEntry) ==
  IF firstEntry # {}
  THEN [entry EXCEPT !.id = The(firstEntry).id + 1, !.queueName = q]
  ELSE [entry EXCEPT !.id = NoId, !.queueName = q]

\* unshiftEntry: the id is one less than the lowest id of the object store;
\* without a first entry the id is deleted and the key generator assigns it.
unshiftEntryArg(q, entry, firstEntry) ==
  IF firstEntry # {}
  THEN [entry EXCEPT !.id = The(firstEntry).id - 1, !.queueName = q]
  ELSE [entry EXCEPT !.id = NoId, !.queueName = q]

\* Changed: the first entry of this queue name, not of the object store.
unshiftEntryOwnFirst(store, autoInc, q, entry) ==
  addEntry(store, autoInc,
           unshiftEntryArg(q, entry, getEndEntryFromIndex(store, "next", { q })))

pushEntry(store, autoInc, q, entry) ==
  addEntry(store, autoInc, pushEntryArg(q, entry))

unshiftEntry(store, autoInc, q, entry) ==
  addEntry(store, autoInc, unshiftEntryArg(q, entry, getFirstEntry(store)))

\* Changed: a key range that every queue name is in.
KeyRangeAll(q) == QueueNames

\* Changed: when the id is taken, the entry is added again without an id.
unshiftEntryAddRetry(store, autoInc, entry) ==
  LET r == addEntry(store, autoInc, entry)
  IN IF r.ok THEN r ELSE addEntry(store, autoInc, [entry EXCEPT !.id = NoId])

\* unshiftEntry, second await: `await this._queueDb.addEntry(entry)`.
unshiftEntryAdd(store, autoInc, entry) == addEntry(store, autoInc, entry)

\* IDBKeyRange.only(this._queueName)
KeyRangeOnly(q) == { q }

\* Changed: the directions of the two ends.
popDirectionNext == "next"
shiftDirectionPrev == "prev"

popDirection == "prev"
shiftDirection == "next"

getAll(store, q) == getAllEntriesFromIndex(store, KeyRangeOnly(q))

\* Changed: only a record of this queue name is deleted.
deleteEntryOwned(store, q, id) ==
  { e \in store : ~ (e.id = id /\ e.queueName = q) }

\* deleteEntry(id): no look at the record's queueName.
deleteEntry(store, q, id) == dbDeleteEntry(store, id)

\* Changed: the end entry of the whole index, not of this queue name.
removeEntryFindAny(store, q, direction) ==
  getEndEntryFromIndex(store, direction, QueueNames)

\* _removeEntry, first await: the end entry of this queue name.
removeEntryFind(store, q, direction) ==
  getEndEntryFromIndex(store, direction, KeyRangeOnly(q))

\* Changed: no `if (entry)`, so that reading entry.id of undefined throws.
removeEntryDeleteUnguarded(store, q, found) ==
  IF found # {}
  THEN [entries |-> dbDeleteEntry(store, The(found).id), result |-> found,
        deletes |-> 1, ok |-> TRUE]
  ELSE [entries |-> store, result |-> {}, deletes |-> 0, ok |-> FALSE]

\* Changed: the entry is returned and not deleted.
removeEntryDeleteKeep(store, q, found) ==
  [entries |-> store, result |-> found, deletes |-> 0, ok |-> TRUE]

\* _removeEntry, `if (entry) { await this.deleteEntry(entry.id); return entry }`.
\* deletes counts the QueueDb.deleteEntry calls made.
removeEntryDelete(store, q, found) ==
  IF found # {}
  THEN [entries |-> deleteEntry(store, q, The(found).id), result |-> found,
        deletes |-> 1, ok |-> TRUE]
  ELSE [entries |-> store, result |-> {}, deletes |-> 0, ok |-> TRUE]

removeEntry(store, q, direction) ==
  removeEntryDelete(store, q, removeEntryFind(store, q, direction))

\* ---------------------------------------------------- observers (ghosts)
\* What identifies an entry for its caller: the payload and the timestamp.
Payload(e) == [requestData |-> e.requestData, timestamp |-> e.timestamp]

Payloads(s) == [ i \in 1 .. Len(s) |-> Payload(s[i]) ]

\* An element of the abstract deque: the payload with the id it is known by.
Element(e) == [id |-> e.id, requestData |-> e.requestData, timestamp |-> e.timestamp]

Elements(s) == [ i \in 1 .. Len(s) |-> Element(s[i]) ]

\* The element the abstract deque takes for an insert made at time t: the id
\* is that of the record stored with timestamp t.
NewElement(store, entry, t) ==
  LET got == { e \in store : e.timestamp = t }
  IN [id |-> IF got = {} THEN NoId ELSE The(got).id,
      requestData |-> entry.requestData, timestamp |-> t]

DequeDelete(s, id) == SelectSeq(s, LAMBDA x : x.id # id)

Removed(store, newStore) ==
  { [id |-> e.id, timestamp |-> e.timestamp] : e \in store \ newStore }

\* fault, dbCalls: set by the calls of SpecFail (the QueueDb call made to fail,
\* the number of QueueDb calls made).
NoCall == [op |-> "none", q |-> "A", id |-> NoId, ok |-> TRUE, result |-> {},
           abstract |-> {}, all |-> << >>, deletes |-> 0,
           pre |-> {}, preNext |-> 1, fault |-> 0, dbCalls |-> 0]

Runs(store) == [ q \in QueueNames |-> [base |-> Payloads(getAll(store, q)), run |-> << >>] ]

\* How often the entry of timestamp t was returned.
Times(ret, t) ==
  LET got == { x \in ret : x.timestamp = t }
  IN IF got = {} THEN 0 ELSE The(got).times

Return(ret, result) ==
  { x \in ret : \A e \in result : x.timestamp # e.timestamp }
    \cup { [timestamp |-> e.timestamp, times |-> Times(ret, e.timestamp) + 1] : e \in result }

Inserted(r, t, q) == IF r.ok THEN { [timestamp |-> t, q |-> q] } ELSE {}

IdleCall == [pc |-> "idle", op |-> "none", q |-> "A", direction |-> "next",
             entry |-> {}, first |-> {}, found |-> {}, fresh |-> TRUE]

\* The caller's entry at time t.
CallerEntry(arg, t) ==
  [id |-> arg.id, queueName |-> arg.queueName,
   requestData |-> arg.requestData, timestamp |-> t]

\* Nothing pushed and nothing shifted yet; hit: a deleteEntry made through
\* another store has deleted an entry of DrainQueue.
NoDrain == [phase |-> "fill", pushed |-> << >>, results |-> << >>, hit |-> FALSE]

\* The first value of the key generator of an object store.
FirstKey == 1

Init ==
  /\ entries = {}
  /\ nextId = FirstKey
  /\ clock = 0
  /\ last = NoCall
  /\ deque = [ q \in QueueNames |-> << >> ]
  /\ pushRun = Runs({})
  /\ unshiftRun = Runs({})
  /\ returned = {}
  /\ deleted = {}
  /\ insertedBy = {}
  /\ calls = [ c \in Slots |-> IdleCall ]
  /\ drain = NoDrain

\* ------------------------------------------- the calls, one at a time
PushEntry(q, arg) ==
  /\ clock < MaxInserts
  /\ LET t == clock + 1
         entry == CallerEntry(arg, t)
         r == pushEntry(entries, nextId, q, entry)
     IN /\ entries' = r.entries
        /\ nextId' = r.nextId
        /\ clock' = t
        /\ last' = [NoCall EXCEPT !.op = "pushEntry", !.q = q, !.ok = r.ok,
                                  !.pre = entries, !.preNext = nextId]
        /\ deque' = [deque EXCEPT ![q] = Append(@, NewElement(r.entries, entry, t))]
        /\ pushRun' = [pushRun EXCEPT ![q].run = Append(@, Payload(entry))]
        /\ unshiftRun' = Runs(r.entries)
        /\ insertedBy' = insertedBy \cup Inserted(r, t, q)
  /\ UNCHANGED << drain, returned, deleted, calls >>

UnshiftEntry(q, arg) ==
  /\ clock < MaxInserts
  /\ LET t == clock + 1
         entry == CallerEntry(arg, t)
         r == unshiftEntry(entries, nextId, q, entry)
     IN /\ entries' = r.entries
        /\ nextId' = r.nextId
        /\ clock' = t
        /\ last' = [NoCall EXCEPT !.op = "unshiftEntry", !.q = q, !.ok = r.ok,
                                  !.pre = entries, !.preNext = nextId]
        /\ deque' = [deque EXCEPT ![q] = << NewElement(r.entries, entry, t) >> \o @]
        /\ unshiftRun' = [unshiftRun EXCEPT ![q].run = Append(@, Payload(entry))]
        /\ pushRun' = Runs(r.entries)
        /\ insertedBy' = insertedBy \cup Inserted(r, t, q)
  /\ UNCHANGED << drain, returned, deleted, calls >>

Remove(q, op, direction, abstract, rest) ==
  LET r == removeEntry(entries, q, direction)
  IN /\ entries' = r.entries
     /\ last' = [NoCall EXCEPT !.op = op, !.q = q, !.ok = r.ok,
                               !.result = r.result, !.abstract = abstract,
                               !.deletes = r.deletes,
                               !.pre = entries, !.preNext = nextId]
     /\ deque' = [deque EXCEPT ![q] = rest]
     /\ pushRun' = Runs(r.entries)
     /\ unshiftRun' = Runs(r.entries)
     /\ returned' = Return(returned, r.result)
     /\ deleted' = deleted \cup Removed(entries, r.entries)
     /\ UNCHANGED << drain, nextId, clock, insertedBy, calls >>

\* The abstract deque removes its back element.
PopEntry(q) ==
  LET d == deque[q]
  IN IF d = << >>
     THEN Remove(q, "popEntry", popDirection, {}, d)
     ELSE Remove(q, "popEntry", popDirection, { d[Len(d)] }, SubSeq(d, 1, Len(d) - 1))

\* The abstract deque removes its front element.
ShiftEntry(q) ==
  LET d == deque[q]
  IN IF d = << >>
     THEN Remove(q, "shiftEntry", shiftDirection, {}, d)
     ELSE Remove(q, "shiftEntry", shiftDirection, { Head(d) }, Tail(d))

GetAll(q) ==
  /\ last' = [NoCall EXCEPT !.op = "getAll", !.q = q, !.all = getAll(entries, q),
                            !.pre = entries, !.preNext = nextId]
  /\ UNCHANGED << drain, entries, nextId, clock, deque, pushRun, unshiftRun, returned,
                  deleted, insertedBy, calls >>

DeleteEntry(q, id) ==
  LET new == deleteEntry(entries, q, id)
  IN /\ entries' = new
     /\ last' = [NoCall EXCEPT !.op = "deleteEntry", !.q = q, !.id = id,
                               !.deletes = 1, !.pre = entries, !.preNext = nextId]
     /\ deque' = [ n \in QueueNames |-> DequeDelete(deque[n], id) ]
     /\ pushRun' = Runs(new)
     /\ unshiftRun' = Runs(new)
     /\ deleted' = deleted \cup Removed(entries, new)
     /\ UNCHANGED << drain, nextId, clock, returned, insertedBy, calls >>

Next ==
  \/ \E q \in QueueNames, arg \in CallerEntries : PushEntry(q, arg)
  \/ \E q \in QueueNames, arg \in CallerEntries : UnshiftEntry(q, arg)
  \/ \E q \in QueueNames : PopEntry(q)
  \/ \E q \in QueueNames : ShiftEntry(q)
  \/ \E q \in QueueNames : GetAll(q)
  \/ \E q \in QueueNames, id \in CallerIds(entries, nextId) : DeleteEntry(q, id)

Spec == Init /\ [][Next]_vars

\* ------------------------------- the calls, interleaved at their awaits
\* pushEntry and deleteEntry await one QueueDb call: one step each (getAll,
\* which changes nothing, is what the properties read in every state).
\* unshiftEntry and _removeEntry await two: a call in a slot, and a step per
\* QueueDb call.
seqVars == << last, deque, pushRun, unshiftRun >>

PushStep(q, arg) ==
  /\ clock < MaxInserts
  /\ LET t == clock + 1
         r == pushEntry(entries, nextId, q, CallerEntry(arg, t))
     IN /\ entries' = r.entries
        /\ nextId' = r.nextId
        /\ clock' = t
        /\ insertedBy' = insertedBy \cup Inserted(r, t, q)
  /\ UNCHANGED << drain, returned, deleted, calls, seqVars >>

DeleteStep(q, id) ==
  /\ entries' = deleteEntry(entries, q, id)
  /\ deleted' = deleted \cup Removed(entries, entries')
  /\ UNCHANGED << drain, nextId, clock, returned, insertedBy, calls, seqVars >>

\* A call takes the first free slot.
Free(c) ==
  /\ calls[c].pc = "idle"
  /\ \A d \in Slots : d < c => calls[d].pc # "idle"

UnshiftCall(c, q, arg) ==
  /\ Free(c)
  /\ clock < MaxInserts
  /\ clock' = clock + 1
  /\ calls' = [calls EXCEPT ![c] = [IdleCall EXCEPT !.pc = "getFirstEntry",
                 !.op = "unshiftEntry", !.q = q,
                 !.entry = { CallerEntry(arg, clock + 1) }]]
  /\ UNCHANGED << drain, entries, nextId, returned, deleted, insertedBy, seqVars >>

\* `const firstEntry = await this._queueDb.getFirstEntry()` and the choice of the id
UnshiftGetFirst(c) ==
  /\ calls[c].pc = "getFirstEntry"
  /\ calls' = [calls EXCEPT ![c].pc = "addEntry",
                 ![c].first = getFirstEntry(entries),
                 ![c].entry = { unshiftEntryArg(calls[c].q, The(calls[c].entry),
                                                getFirstEntry(entries)) }]
  /\ UNCHANGED << drain, entries, nextId, clock, returned, deleted, insertedBy, seqVars >>

\* `await this._queueDb.addEntry(entry)`: the call ends, with the store's
\* error when the id is taken.
UnshiftAdd(c) ==
  /\ calls[c].pc = "addEntry"
  /\ LET e == The(calls[c].entry)
         r == unshiftEntryAdd(entries, nextId, e)
     IN /\ entries' = r.entries
        /\ nextId' = r.nextId
        /\ insertedBy' = insertedBy \cup Inserted(r, e.timestamp, calls[c].q)
  /\ calls' = [calls EXCEPT ![c] = IdleCall]
  /\ UNCHANGED << drain, clock, returned, deleted, seqVars >>

RemoveCall(c, q, op, direction) ==
  /\ Free(c)
  /\ calls' = [calls EXCEPT ![c] = [IdleCall EXCEPT !.pc = "getEndEntry",
                 !.op = op, !.q = q, !.direction = direction]]
  /\ UNCHANGED << drain, entries, nextId, clock, returned, deleted, insertedBy, seqVars >>

PopCall(c, q) == RemoveCall(c, q, "popEntry", popDirection)

ShiftCall(c, q) == RemoveCall(c, q, "shiftEntry", shiftDirection)

\* `const entry = await this._queueDb.getEndEntryFromIndex(...)`; fresh: no
\* call has returned the entry read.
RemoveFind(c) ==
  /\ calls[c].pc = "getEndEntry"
  /\ LET found == removeEntryFind(entries, calls[c].q, calls[c].direction)
     IN calls' = [calls EXCEPT ![c].pc = "deleteEntry", ![c].found = found,
                    ![c].fresh = \A e \in found : Times(returned, e.timestamp) = 0]
  /\ UNCHANGED << drain, entries, nextId, clock, returned, deleted, insertedBy, seqVars >>

\* `if (entry) { await this.deleteEntry(entry.id); return entry }`
RemoveDelete(c) ==
  /\ calls[c].pc = "deleteEntry"
  /\ LET r == removeEntryDelete(entries, calls[c].q, calls[c].found)
     IN /\ entries' = r.entries
        /\ returned' = Return(returned, r.result)
        /\ deleted' = deleted \cup Removed(entries, r.entries)
  /\ calls' = [calls EXCEPT ![c] = IdleCall]
  /\ UNCHANGED << drain, nextId, clock, insertedBy, seqVars >>

NextConc ==
  \/ \E q \in QueueNames, arg \in ConcEntries : PushStep(q, arg)
  \/ \E q \in QueueNames, id \in CallerIds(entries, nextId) : DeleteStep(q, id)
  \/ \E c \in Slots, q \in QueueNames, arg \in ConcEntries : UnshiftCall(c, q, arg)
  \/ \E c \in Slots : UnshiftGetFirst(c)
  \/ \E c \in Slots : UnshiftAdd(c)
  \/ \E c \in Slots, q \in QueueNames : PopCall(c, q)
  \/ \E c \in Slots, q \in QueueNames : ShiftCall(c, q)
  \/ \E c \in Slots : RemoveFind(c)
  \/ \E c \in Slots : RemoveDelete(c)

SpecConc == Init /\ [][NextConc]_vars

\* ------------------- the calls, one at a time, with failing QueueDb calls
\* fail: which QueueDb call of the method fails (0: none). A QueueDb call that
\* fails changes nothing, and its rejection is that of the awaiting method:
\* no method has a try / catch.
Thrown(store, autoInc, k) ==
  [ok |-> FALSE, entries |-> store, nextId |-> autoInc, result |-> {},
   all |-> << >>, dbCalls |-> k]

pushEntryOutcome(store, autoInc, q, entry, fail) ==
  IF fail = 1 THEN Thrown(store, autoInc, 1)
  ELSE LET r == pushEntry(store, autoInc, q, entry)
       IN [ok |-> r.ok, entries |-> r.entries, nextId |-> r.nextId,
           result |-> {}, all |-> << >>, dbCalls |-> 1]

\* Changed: an add that fails is made again.
unshiftEntryOutcomeRetry(store, autoInc, q, entry, fail) ==
  IF fail = 1 THEN Thrown(store, autoInc, 1)
  ELSE LET r == unshiftEntryAdd(store, autoInc,
                  unshiftEntryArg(q, entry, getFirstEntry(store)))
       IN [ok |-> r.ok, entries |-> r.entries, nextId |-> r.nextId,
           result |-> {}, all |-> << >>, dbCalls |-> IF fail = 2 THEN 3 ELSE 2]

unshiftEntryOutcome(store, autoInc, q, entry, fail) ==
  IF fail = 1 THEN Thrown(store, autoInc, 1)
  ELSE LET arg == unshiftEntryArg(q, entry, getFirstEntry(store))
       IN IF fail = 2 THEN Thrown(store, autoInc, 2)
          ELSE LET r == unshiftEntryAdd(store, autoInc, arg)
               IN [ok |-> r.ok, entries |-> r.entries, nextId |-> r.nextId,
                   result |-> {}, all |-> << >>, dbCalls |-> 2]

\* Changed: the entry read is returned although its delete failed.
removeEntryOutcomeSwallow(store, autoInc, q, direction, fail) ==
  IF fail = 1 THEN Thrown(store, autoInc, 1)
  ELSE LET found == removeEntryFind(store, q, direction)
           r == removeEntryDelete(store, q, found)
       IN [ok |-> r.ok, entries |-> IF fail = 2 THEN store ELSE r.entries,
           nextId |-> autoInc, result |-> r.result, all |-> << >>,
           dbCalls |-> 1 + r.deletes]

removeEntryOutcome(store, autoInc, q, direction, fail) ==
  IF fail = 1 THEN Thrown(store, autoInc, 1)
  ELSE LET found == removeEntryFind(store, q, direction)
           r == removeEntryDelete(store, q, found)
       IN IF r.deletes > 0 /\ fail = 2 THEN Thrown(store, autoInc, 2)
          ELSE [ok |-> r.ok, entries |-> r.entries, nextId |-> autoInc,
                result |-> r.result, all |-> << >>, dbCalls |-> 1 + r.deletes]

getAllOutcome(store, autoInc, q, fail) ==
  IF fail = 1 THEN Thrown(store, autoInc, 1)
  ELSE [ok |-> TRUE, entries |-> store, nextId |-> autoInc, result |-> {},
        all |-> getAll(store, q), dbCalls |-> 1]

deleteEntryOutcome(store, autoInc, q, id, fail) ==
  IF fail = 1 THEN Thrown(store, autoInc, 1)
  ELSE [ok |-> TRUE, entries |-> deleteEntry(store, q, id), nextId |-> autoInc,
        result |-> {}, all |-> << >>, dbCalls |-> 1]

\* The call `op` ends with the outcome o; without a failure it makes `calls`
\* QueueDb calls, so that fail is one of them or 0.
Finish(op, q, id, fail, made, o) ==
  /\ fail <= made
  /\ entries' = o.entries
  /\ nextId' = o.nextId
  /\ last' = [NoCall EXCEPT !.op = op, !.q = q, !.id = id, !.ok = o.ok,
                            !.result = o.result, !.all = o.all,
                            !.fault = fail, !.dbCalls = o.dbCalls,
                            !.pre = entries, !.preNext = nextId]
  /\ UNCHANGED << drain, deque, pushRun, unshiftRun, returned, deleted, insertedBy, calls >>

FailPush(q, arg, fail) ==
  /\ clock < MaxInserts
  /\ clock' = clock + 1
  /\ Finish("pushEntry", q, NoId, fail, 1,
            pushEntryOutcome(entries, nextId, q, CallerEntry(arg, clock + 1), fail))

FailUnshift(q, arg, fail) ==
  /\ clock < MaxInserts
  /\ clock' = clock + 1
  /\ Finish("unshiftEntry", q, NoId, fail, 2,
            unshiftEntryOutcome(entries, nextId, q, CallerEntry(arg, clock + 1), fail))

FailRemove(q, op, direction, fail) ==
  /\ UNCHANGED clock
  /\ Finish(op, q, NoId, fail,
            1 + Cardinality(getEndEntryFromIndex(entries, direction, { q })),
            removeEntryOutcome(entries, nextId, q, direction, fail))

FailPop(q, fail) == FailRemove(q, "popEntry", popDirection, fail)

FailShift(q, fail) == FailRemove(q, "shiftEntry", shiftDirection, fail)

FailGetAll(q, fail) ==
  /\ UNCHANGED clock
  /\ Finish("getAll", q, NoId, fail, 1, getAllOutcome(entries, nextId, q, fail))

FailDelete(q, id, fail) ==
  /\ UNCHANGED clock
  /\ Finish("deleteEntry", q, id, fail, 1,
            deleteEntryOutcome(entries, nextId, q, id, fail))

NextFail ==
  \/ \E q \in QueueNames, arg \in CallerEntries, fail \in 0 .. 1 : FailPush(q, arg, fail)
  \/ \E q \in QueueNames, arg \in CallerEntries, fail \in 0 .. 2 : FailUnshift(q, arg, fail)
  \/ \E q \in QueueNames, fail \in 0 .. 2 : FailPop(q, fail)
  \/ \E q \in QueueNames, fail \in 0 .. 2 : FailShift(q, fail)
  \/ \E q \in QueueNames, fail \in 0 .. 1 : FailGetAll(q, fail)
  \/ \E q \in QueueNames, id \in CallerIds(entries, nextId), fail \in 0 .. 1 :
       FailDelete(q, id, fail)

SpecFail == Init /\ [][NextFail]_vars

\* ------------------- the calls, one at a time, with the put-back of a caller
\* shiftEntry() and then unshiftEntry of the entry returned; popEntry() and
\* then pushEntry of the entry returned: four QueueDb calls.
putBack(store, autoInc, q, direction) ==
  LET r == removeEntry(store, q, direction)
      u == IF r.result = {}
           THEN [ok |-> TRUE, entries |-> store, nextId |-> autoInc]
           ELSE IF direction = shiftDirection
                THEN unshiftEntry(r.entries, autoInc, q, The(r.result))
                ELSE pushEntry(r.entries, autoInc, q, The(r.result))
  IN [ok |-> r.ok /\ u.ok, entries |-> u.entries, nextId |-> u.nextId,
      result |-> r.result, all |-> << >>, dbCalls |-> 4]

PutBack(q, op, direction) ==
  /\ getAll(entries, q) # << >>
  /\ clock < MaxInserts + MaxRoundTrips
  /\ clock' = clock + 1
  /\ Finish(op, q, NoId, 0, 4, putBack(entries, nextId, q, direction))

ShiftUnshift(q) == PutBack(q, "shiftUnshift", shiftDirection)

PopPush(q) == PutBack(q, "popPush", popDirection)

\* The single calls are those of NextFail with no failing QueueDb call.
NextRound ==
  \/ \E q \in QueueNames, arg \in CallerEntries : FailPush(q, arg, 0)
  \/ \E q \in QueueNames, arg \in CallerEntries : FailUnshift(q, arg, 0)
  \/ \E q \in QueueNames : FailPop(q, 0)
  \/ \E q \in QueueNames : FailShift(q, 0)
  \/ \E q \in QueueNames : FailGetAll(q, 0)
  \/ \E q \in QueueNames, id \in CallerIds(entries, nextId) : FailDelete(q, id, 0)
  \/ \E q \in QueueNames : ShiftUnshift(q)
  \/ \E q \in QueueNames : PopPush(q)

SpecRound == Init /\ [][NextRound]_vars

\* ------------------- a queue filled by pushEntry and then drained by shiftEntry
\* The calls are made one at a time; between those on DrainQueue, any call is
\* made through the store of OtherQueue.
DrainQueue == "A"

OtherQueue == "B"

drainVars == << last, deque, pushRun, unshiftRun, returned, deleted, insertedBy, calls >>

DrainPush(arg) ==
  /\ drain.phase = "fill"
  /\ clock < MaxInserts
  /\ LET entry == CallerEntry(arg, clock + 1)
         r == pushEntry(entries, nextId, DrainQueue, entry)
     IN /\ entries' = r.entries
        /\ nextId' = r.nextId
        /\ clock' = clock + 1
        /\ drain' = [drain EXCEPT !.pushed = Append(@, Payload(entry))]
  /\ UNCHANGED drainVars

\* The (n+1)-th shiftEntry is the last one made.
DrainShift ==
  /\ Len(drain.results) <= Len(drain.pushed)
  /\ LET r == removeEntry(entries, DrainQueue, shiftDirection)
     IN /\ entries' = r.entries
        /\ drain' = [drain EXCEPT !.phase = "drain",
                                  !.results = Append(@, { Payload(e) : e \in r.result })]
  /\ UNCHANGED << nextId, clock, drainVars >>

OtherInsert(arg, front) ==
  /\ clock < MaxInserts
  /\ LET entry == CallerEntry(arg, clock + 1)
         r == IF front THEN unshiftEntry(entries, nextId, OtherQueue, entry)
                       ELSE pushEntry(entries, nextId, OtherQueue, entry)
     IN /\ entries' = r.entries
        /\ nextId' = r.nextId
        /\ clock' = clock + 1
  /\ UNCHANGED << drain, drainVars >>

OtherRemove(direction) ==
  /\ entries' = removeEntry(entries, OtherQueue, direction).entries
  /\ entries' # entries
  /\ UNCHANGED << nextId, clock, drain, drainVars >>

OtherDelete(id) ==
  /\ entries' = deleteEntry(entries, OtherQueue, id)
  /\ entries' # entries
  /\ drain' = [drain EXCEPT !.hit = @ \/ \E e \in entries \ entries' :
                                            e.queueName = DrainQueue]
  /\ UNCHANGED << nextId, clock, drainVars >>

NextDrain ==
  \/ \E arg \in CallerEntries : DrainPush(arg)
  \/ DrainShift
  \/ \E arg \in CallerEntries, front \in BOOLEAN : OtherInsert(arg, front)
  \/ \E direction \in {popDirection, shiftDirection} : OtherRemove(direction)
  \/ \E id \in CallerIds(entries, nextId) : OtherDelete(id)

\* The caller goes on calling shiftEntry.
SpecDrain == Init /\ [][NextDrain]_vars /\ WF_vars(DrainShift)

\* ================================================================ claims
Own(store, q) == { e \in store : e.queueName = q }

Ids(S) == { x.id : x \in S }

Timestamps(S) == { x.timestamp : x \in S }

\* C1: with the calls issued one at a time, getAll() of every queue name is
\* the content of the abstract deque of that name, and popEntry / shiftEntry
\* return the element the abstract deque removes.
DequeRefinement ==
  /\ \A q \in QueueNames : Elements(getAll(entries, q)) = deque[q]
  /\ last.op \in {"popEntry", "shiftEntry"}
       => { Element(e) : e \in last.result } = last.abstract

\* A shiftEntry has returned an entry, both queues hold entries and one of
\* them was unshifted below the first key.
DequeRefinementWitness ==
  /\ last.op = "shiftEntry"
  /\ last.result # {}
  /\ deque["A"] # << >>
  /\ deque["B"] # << >>
  /\ \E e \in entries : e.id < FirstKey

\* C2: getAll() lists the entries of a run of pushEntry calls in the order
\* pushed, after the entries the queue held when the run began.
PushOrder ==
  \A q \in QueueNames :
    Payloads(getAll(entries, q)) = pushRun[q].base \o pushRun[q].run

\* Two entries were pushed to a queue that held an entry before.
PushOrderWitness ==
  \E q \in QueueNames : Len(pushRun[q].run) >= 2 /\ pushRun[q].base # << >>

\* C3: getAll() lists the entries of a run of unshiftEntry calls in reverse
\* call order, before the entries the queue held when the run began.
UnshiftOrder ==
  \A q \in QueueNames :
    Payloads(getAll(entries, q)) = Reverse(unshiftRun[q].run) \o unshiftRun[q].base

\* From the empty store: unshift to A (auto-assigned id), to B, to A again.
UnshiftOrderWitness ==
  /\ unshiftRun["A"].base = << >>
  /\ unshiftRun["B"].base = << >>
  /\ Len(unshiftRun["A"].run) = 2
  /\ Len(unshiftRun["B"].run) = 1
  /\ unshiftRun["A"].run[1].timestamp < unshiftRun["B"].run[1].timestamp
  /\ unshiftRun["B"].run[1].timestamp < unshiftRun["A"].run[2].timestamp

\* C4 as claimed: with interleaved popEntry / shiftEntry calls every entry is
\* returned by at most one call, and no call reads an entry another call has
\* read for removal.
RemoveIsAtomic ==
  /\ \A r \in returned : r.times <= 1
  /\ \A c, d \in Slots :
       (c # d /\ calls[c].pc = "deleteEntry" /\ calls[d].pc = "deleteEntry")
         => calls[c].found \cap calls[d].found = {}

\* C4 as amended: an entry is out of the store once a call has returned it,
\* and no call reads an entry that a call has already returned.
ReturnedIsGone ==
  /\ \A e \in entries : Times(returned, e.timestamp) = 0
  /\ \A c \in Slots : calls[c].fresh

\* Two interleaved calls have returned the same entry.
ReturnedIsGoneWitness == \E r \in returned : r.times >= 2

\* C5 as claimed: no pushEntry or unshiftEntry stores an entry under the id of
\* a record that was stored and deleted before.
IdNeverReused ==
  last.op \in {"pushEntry", "unshiftEntry"}
    => Ids(entries \ last.pre) \cap Ids(deleted) = {}

\* C5 as amended: an id the key generator assigns (pushEntry, or unshiftEntry
\* into an empty store) is never the id of a record deleted before.
AutoIdNeverReused ==
  (last.op = "pushEntry" \/ (last.op = "unshiftEntry" /\ last.pre = {}))
    => Ids(entries \ last.pre) \cap Ids(deleted) = {}

\* A pushEntry has stored an entry after a record was deleted.
AutoIdNeverReusedWitness ==
  /\ last.op = "pushEntry"
  /\ entries \ last.pre # {}
  /\ deleted # {}

\* C6: popEntry on a non-empty queue returns and removes the entry of the
\* highest id of the queue name; getAll() afterwards is getAll() before without
\* its last element, and no other record changes.
PopPost ==
  (last.op = "popEntry" /\ Own(last.pre, last.q) # {})
    => \E e \in Own(last.pre, last.q) :
         /\ \A f \in Own(last.pre, last.q) : f.id <= e.id
         /\ last.result = { e }
         /\ entries = last.pre \ { e }
         /\ nextId = last.preNext
         /\ LET before == getAll(last.pre, last.q)
                after == getAll(entries, last.q)
            IN /\ e \notin Range(after)
               /\ after = SubSeq(before, 1, Len(before) - 1)
               /\ e = before[Len(before)]

\* A popEntry on a queue of two or more entries, with an entry of a higher id
\* in the other queue.
PopPostWitness ==
  /\ last.op = "popEntry"
  /\ Len(getAll(last.pre, last.q)) >= 2
  /\ \E e \in last.result, f \in entries : f.queueName # last.q /\ f.id > e.id

\* C7: shiftEntry on a non-empty queue returns and removes the entry of the
\* lowest id of the queue name, and no record of another queue.
ShiftPost ==
  (last.op = "shiftEntry" /\ Own(last.pre, last.q) # {})
    => \E e \in Own(last.pre, last.q) :
         /\ \A f \in Own(last.pre, last.q) : e.id <= f.id
         /\ last.result = { e }
         /\ entries = last.pre \ { e }
         /\ nextId = last.preNext

\* A shiftEntry while the other queue holds an entry of a lower id.
ShiftPostWitness ==
  /\ last.op = "shiftEntry"
  /\ \E e \in last.result, f \in entries : f.queueName # last.q /\ f.id < e.id

\* C8: popEntry / shiftEntry on a queue without entries return nothing, throw
\* nothing, call no delete and change nothing.
EmptyRemove ==
  (last.op \in {"popEntry", "shiftEntry"} /\ Own(last.pre, last.q) = {})
    => /\ last.result = {}
       /\ last.ok
       /\ last.deletes = 0
       /\ entries = last.pre
       /\ nextId = last.preNext

\* A popEntry on an empty queue while the other queue holds entries.
EmptyRemoveWitness ==
  /\ last.op = "popEntry"
  /\ Own(last.pre, last.q) = {}
  /\ last.pre # {}
  /\ last.result = {}

\* C9: under every interleaving, getAll() of a queue name holds only entries
\* inserted through the store of that name, and all of them that were not
\* removed.
Isolation ==
  \A q \in QueueNames :
    LET got == Timestamps(Range(getAll(entries, q)))
        mine == Timestamps({ i \in insertedBy : i.q = q })
    IN /\ got \subseteq mine
       /\ (mine \ Timestamps(deleted)) \subseteq got

\* Both queues hold entries while an unshiftEntry is between its two awaits.
IsolationWitness ==
  /\ getAll(entries, "A") # << >>
  /\ getAll(entries, "B") # << >>
  /\ \E c \in Slots : calls[c].pc = "addEntry"

\* C10: deleteEntry(id) removes the record of that id, whatever its
\* queueName, and nothing else; without such a record it changes nothing.
DeletePost ==
  last.op = "deleteEntry"
    => /\ last.ok
       /\ entries = { e \in last.pre : e.id # last.id }
       /\ nextId = last.preNext
       /\ \A q \in QueueNames :
            getAll(entries, q) = SelectSeq(getAll(last.pre, q), LAMBDA e : e.id # last.id)
       /\ (last.id \notin Ids(last.pre)) => entries = last.pre

\* The store bound to B has deleted an entry of A, and other entries remain.
DeletePostWitness ==
  /\ last.op = "deleteEntry"
  /\ last.q = "B"
  /\ \E e \in last.pre : e.id = last.id /\ e.queueName = "A" /\ e \notin entries
  /\ entries # {}

\* C11: an unshiftEntry into a store that holds entries stores its entry under
\* the lowest id of the whole store minus one, below every stored id; into a
\* store without entries it leaves the id to the key generator.
UnshiftId ==
  last.op = "unshiftEntry"
    => /\ last.ok
       /\ last.pre \subseteq entries
       /\ Cardinality(entries \ last.pre) = 1
       /\ \A new \in entries \ last.pre :
            IF last.pre # {}
            THEN /\ \E m \in last.pre :
                      /\ \A f \in last.pre : m.id <= f.id
                      /\ new.id = m.id - 1
                 /\ \A f \in last.pre : new.id < f.id
                 /\ nextId = last.preNext
            ELSE /\ new.id = last.preNext
                 /\ nextId = last.preNext + 1

\* An unshiftEntry while the lowest id of the store is in the other queue.
UnshiftIdWitness ==
  /\ last.op = "unshiftEntry"
  /\ Own(last.pre, last.q) # {}
  /\ \E m \in last.pre :
       /\ m.queueName # last.q
       /\ \A f \in last.pre : m.id <= f.id
       /\ \E new \in entries \ last.pre : new.id = m.id - 1

\* C13: getAll() returns the entries of the bound queue name, all of them and
\* no other, each once, by ascending id (an empty sequence without any), and
\* changes neither the store nor the key generator.
GetAllPost ==
  last.op = "getAll"
    => /\ last.ok
       /\ Range(last.all) = Own(last.pre, last.q)
       /\ Len(last.all) = Cardinality(Own(last.pre, last.q))
       /\ \A i, j \in 1 .. Len(last.all) : i < j => last.all[i].id < last.all[j].id
       /\ (Own(last.pre, last.q) = {}) => last.all = << >>
       /\ entries = last.pre
       /\ nextId = last.preNext

\* A getAll() of two or more entries while the other queue holds an entry
\* whose id lies between theirs.
GetAllPostWitness ==
  /\ last.op = "getAll"
  /\ Len(last.all) >= 2
  /\ \E f \in entries :
       /\ f.queueName # last.q
       /\ last.all[1].id < f.id
       /\ f.id < last.all[Len(last.all)].id

\* C15: pushEntry stores its entry under a fresh id of the key generator,
\* whatever id the caller's entry carries; pushEntry and unshiftEntry store it
\* under the bound queue name, whatever queueName it carries; and no call
\* changes a record that stays stored.
EntryStamped ==
  /\ last.op \in {"pushEntry", "unshiftEntry"}
       => /\ last.ok
          /\ Cardinality(entries \ last.pre) = 1
          /\ \A new \in entries \ last.pre :
               /\ new.queueName = last.q
               /\ last.op = "pushEntry"
                    => (new.id = last.preNext /\ new.id \notin Ids(last.pre))
  /\ \A e \in last.pre, f \in entries : e.timestamp = f.timestamp => e = f

\* A pushEntry through the store bound to B of the caller's entry that
\* carries the queueName A and an id that a stored record has.
EntryStampedWitness ==
  /\ last.op = "pushEntry"
  /\ last.q = "B"
  /\ last.pre # {}
  /\ \E new \in entries \ last.pre, arg \in CallerEntries :
       /\ arg.requestData = new.requestData
       /\ arg.queueName = "A"
       /\ arg.id \in Ids(last.pre)
       /\ new.id # arg.id

\* C19: every stored id is below the key generator's next value, an
\* unshiftEntry into a store that holds entries neither reaches nor advances
\* it, and an entry that gets its id from the key generator is stored above
\* every id of the store.
NextAboveStored ==
  /\ \A e \in entries : e.id < nextId
  /\ (last.op = "unshiftEntry" /\ last.pre # {})
       => /\ nextId = last.preNext
          /\ \A new \in entries \ last.pre : new.id < last.preNext
  /\ (last.op = "pushEntry" \/ (last.op = "unshiftEntry" /\ last.pre = {}))
       => /\ entries \ last.pre # {}
          /\ \A new \in entries \ last.pre : \A f \in last.pre : new.id > f.id

\* A pushEntry into a store that holds an unshifted entry, after a deletion.
NextAboveStoredWitness ==
  /\ last.op = "pushEntry"
  /\ \E e \in last.pre : e.id < FirstKey
  /\ deleted # {}

\* C12: two unshiftEntry calls that are both between their read of the first
\* entry and their add, and have read the same first entry, have chosen the
\* same id, one less than the id read; such a state is reachable.
UnshiftRace ==
  \A c, d \in Slots :
    (/\ c # d
     /\ calls[c].pc = "addEntry"
     /\ calls[d].pc = "addEntry"
     /\ calls[c].first # {}
     /\ calls[c].first = calls[d].first)
      => /\ The(calls[c].entry).id = The(calls[c].first).id - 1
         /\ The(calls[d].entry).id = The(calls[c].entry).id

\* Two calls, on the stores of two queue names, hold the same first entry and
\* the same id for their entries, which no stored record has yet.
UnshiftRaceWitness ==
  \E c, d \in Slots :
    /\ c # d
    /\ calls[c].pc = "addEntry"
    /\ calls[d].pc = "addEntry"
    /\ calls[c].q # calls[d].q
    /\ calls[c].first # {}
    /\ calls[c].first = calls[d].first
    /\ calls[c].first \subseteq entries
    /\ The(calls[c].entry).id = The(calls[d].entry).id
    /\ The(calls[c].entry).id \notin Ids(entries)

\* C17: the delete of a popEntry / shiftEntry of the store bound to a queue
\* name removes only records of that queue name.
RemoveDeletesOwn ==
  [][ \A c \in Slots :
        (calls[c].pc = "deleteEntry" /\ calls'[c].pc = "idle")
          => \A e \in entries \ entries' : e.queueName = calls[c].q ]_vars

\* C18: the stored ids are pairwise distinct, and the add of an unshiftEntry
\* whose id a stored record has stores nothing and changes no record.
NoOverwrite ==
  /\ [] (\A e, f \in entries : e.id = f.id => e = f)
  /\ [][ \A c \in Slots :
           (/\ calls[c].pc = "addEntry"
            /\ calls'[c].pc = "idle"
            /\ The(calls[c].entry).id \in Ids(entries))
             => /\ entries' = entries
                /\ nextId' = nextId
                /\ insertedBy' = insertedBy ]_vars

\* No call is in flight and an add has failed: fewer entries were stored than
\* pushEntry / unshiftEntry calls were made.
NoOverwriteWitness ==
  /\ \A c \in Slots : calls[c].pc = "idle"
  /\ Cardinality(insertedBy) < clock

\* C14: a QueueDb call that fails ends the method with that failure: the
\* method makes no QueueDb call after it and none again, returns nothing, and
\* the store and the key generator are as before the call; popEntry /
\* shiftEntry return an entry only after its delete, and an unshiftEntry whose
\* add fails stores nothing.
FailurePropagates ==
  /\ last.ok <=> last.fault = 0
  /\ last.fault > 0
       => /\ last.dbCalls = last.fault
          /\ last.result = {}
          /\ last.all = << >>
          /\ entries = last.pre
          /\ nextId = last.preNext
  /\ (last.op \in {"popEntry", "shiftEntry"} /\ last.result # {})
       => /\ last.fault = 0
          /\ last.dbCalls = 2
          /\ last.result \subseteq last.pre
          /\ last.result \cap entries = {}
  /\ last.op = "unshiftEntry"
       => last.dbCalls = (IF last.fault = 0 THEN 2 ELSE last.fault)

\* The delete of a popEntry has failed, with the entry read still stored.
FailurePropagatesWitness ==
  /\ last.op = "popEntry"
  /\ last.fault = 2
  /\ Own(entries, last.q) # {}

\* C20: shiftEntry() and then unshiftEntry of the entry returned, and
\* popEntry() and then pushEntry of the entry returned, leave getAll of every
\* queue with the payloads it had, in the order it had.
RoundTrip ==
  last.op \in {"shiftUnshift", "popPush"}
    => /\ last.ok
       /\ last.result # {}
       /\ \A q \in QueueNames :
            Payloads(getAll(entries, q)) = Payloads(getAll(last.pre, q))
       /\ Cardinality(entries) = Cardinality(last.pre)

\* The entry shifted from a queue of two or more is back under another id.
RoundTripWitness ==
  /\ last.op = "shiftUnshift"
  /\ Cardinality(Own(entries, last.q)) >= 2
  /\ Ids(entries) # Ids(last.pre)
  /\ Own(entries, last.q) # entries

\* The i-th shiftEntry returned the i-th entry pushed, and the one after the
\* last entry pushed returned none.
DrainInOrder ==
  \A i \in 1 .. Len(drain.results) :
    drain.results[i] = IF i <= Len(drain.pushed) THEN { drain.pushed[i] } ELSE {}

DrainEmpties == (drain.phase = "drain") ~> (Own(entries, DrainQueue) = {})

\* C16 as stated: with any call made through the other queue's store in
\* between, n shiftEntry calls return the n entries pushed in insertion order
\* and the next returns none.
DrainFifoAnyCall == [] DrainInOrder

\* C16: unless a deleteEntry made through another store has deleted an entry
\* of the queue, n shiftEntry calls return the n entries pushed to the
\* initially empty queue in insertion order and the next returns none; and a
\* queue that is shifted repeatedly and gets no new entries becomes empty.
DrainFifo == [] (~ drain.hit => DrainInOrder) /\ DrainEmpties

\* Two or more entries were shifted and one more call returned none, with an
\* entry of the other queue stored under a lower id.
DrainFifoWitness ==
  /\ ~ drain.hit
  /\ Len(drain.pushed) >= 2
  /\ Len(drain.results) = Len(drain.pushed) + 1
  /\ \E e \in entries : e.queueName = OtherQueue /\ e.id < FirstKey

====
